---- MODULE Spec2Model ----
(***************************************************************************)
(* Cafe stock management: the record stores of product.py, stock.py and    *)
(* main2.py, the row store of main3.py, and the menu handlers of Main.py,  *)
(* main2.py and main3.py that drive them, over one backing CSV file.       *)
(*                                                                         *)
(* A behaviour follows one session of one variant of the program (impl).   *)
(* Floats are written as tenths (25 is 2.5); the CSV text of a number is a *)
(* string, converted by the tables FloatStr / ParseFloat and by IntStr /   *)
(* ParseInt, so that what is in memory and what is in the file differ in   *)
(* type as they do in the program.                                         *)
(***************************************************************************)
EXTENDS Integers, Sequences, FiniteSets, TLC

VARIABLES impl, products, suppliers, file, pc, last, attempt, stock_manager

vars == <<impl, products, suppliers, file, pc, last, attempt, stock_manager>>

(* ----------------------------- bounds --------------------------------- *)
\* longest store the model lets an add build
MaxLen == 2
\* largest quantity held in a record or typed at a prompt
MaxQty == 1

(* ------------------------- names and text ----------------------------- *)
Names == {"Tea", "tea", "Latte"}

\* str.lower() on the names of the model
Lower(s) ==
    CASE s = "Tea" -> "tea"
      [] s = "tea" -> "tea"
      [] s = "Latte" -> "latte"
      [] s = "Admin" -> "admin"
      [] s = "TEST" -> "test"
      [] OTHER -> s

Quantities == (0 - 1) .. MaxQty

\* float(text) in tenths: raises ValueError outside FloatTexts
FloatTexts == {"2.5", "2.50"}

ParseFloat(s) ==
    CASE s = "2.5" -> 25
      [] s = "2.50" -> 25

\* str(float): what csv.DictWriter writes for a float price
FloatStr(x) == CASE x = 25 -> "2.5"

\* str(int)
IntStr(n) == ToString(n)

IntTexts == {IntStr(n) : n \in Quantities}

\* int(text): raises ValueError outside IntTexts
ParseInt(s) == CHOOSE n \in Quantities : IntStr(n) = s

\* what a user can type at a price or a quantity prompt
PriceInputs == {"2.50", "abc"}
QtyInputs == IntTexts \cup {"abc"}
\* what a user can type at an update prompt: blank keeps the current value
UpdatePriceInputs == {"", "abc"}
UpdateQtyInputs == {"", IntStr(MaxQty), "abc"}

ProductHeader == <<"Name", "Price", "Quantity">>

\* what the supplier tables hold beside the name
Contacts == {"a@cafe", "b@cafe"}
Categories == {"Coffee"}
\* what a user can type at the update prompts of a supplier
UpdateContactInputs == {"", "b@cafe"}
UpdateCategoryInputs == {""}

\* a row of the product table as text
ProductRows == [Name : Names, Price : FloatTexts, Quantity : IntTexts]

(* ------------------------- sequence helpers --------------------------- *)
\* s without its element at index i
RemoveAt(s, i) == [k \in 1 .. (Len(s) - 1) |-> IF k < i THEN s[k] ELSE s[k + 1]]

MinOf(S) == CHOOSE m \in S : \A k \in S : m <= k

\* index of the first element of s equal to x, 0 when there is none
IndexOf(s, x) ==
    LET hits == {i \in DOMAIN s : s[i] = x}
    IN  IF hits = {} THEN 0 ELSE MinOf(hits)

\* list.remove(x): drops the first element equal to x
ListRemove(s, x) == RemoveAt(s, IndexOf(s, x))

(* --------------------------- the CSV file ----------------------------- *)
\* csv.DictWriter.writerow of one product held as name / price / quantity
ProductRow(p) ==
    [Name |-> p.name, Price |-> FloatStr(p.price), Quantity |-> IntStr(p.quantity)]

\* open(path, 'w') + writeheader + one writerow per product: the whole file
WriteProducts(ps) ==
    [header |-> ProductHeader, rows |-> [i \in DOMAIN ps |-> ProductRow(ps[i])]]

\* csv.DictReader + float() + int(): the products of a well-formed file
ReadProducts(f) ==
    [i \in DOMAIN f.rows |->
        [name |-> f.rows[i].Name,
         price |-> ParseFloat(f.rows[i].Price),
         quantity |-> ParseInt(f.rows[i].Quantity)]]

\* a path with no file behind it, and os.path.exists
MissingFile == [header |-> <<>>, rows |-> <<>>, missing |-> TRUE]

Exists(f) == "missing" \notin DOMAIN f

(* ------------------- a store object and a method call ----------------- *)
\* the Stock instance of a second process over the same path, before its
\* constructor has run
NotConstructed == [constructed |-> FALSE, products |-> <<>>]

\* self.products and the file behind self.file_path, with what one call did:
\* its return value and the number of times it rewrote the file
Obj(ps, f) == [products |-> ps, file |-> f, ret |-> "None", saves |-> 0]

\* the loop of the search methods from index i on: returns at the first
\* record whose lowered name equals the lowered name asked for, 0 for None
RECURSIVE ScanFrom(_, _, _)
ScanFrom(ps, product_name, i) ==
    IF i > Len(ps) THEN 0
    ELSE IF Lower(ps[i].name) = Lower(product_name) THEN i
    ELSE ScanFrom(ps, product_name, i + 1)

\* a faulty search: compares the names as they are written
FirstMatch_exact(ps, product_name) ==
    LET hits == {i \in DOMAIN ps : ps[i].name = product_name}
    IN  IF hits = {} THEN 0 ELSE MinOf(hits)

\* index of the first product whose name matches case-insensitively, 0 if none
FirstMatch(ps, product_name) == ScanFrom(ps, product_name, 1)

(* ------------------------------ product.py ---------------------------- *)
\* Product.load_products
Product_load_products(f) == IF Exists(f) THEN ReadProducts(f) ELSE <<>>

\* Product.get_all_products: returns self.products, the list object the
\* store itself holds (object), whose items are the products
Product_get_all_products(self) == [object |-> "self.products", items |-> self.products]

\* Product.search_product: the index of the product returned, 0 for None
Product_search_product(ps, product_name) == FirstMatch(ps, product_name)

\* a faulty save_products: opens the file for appending, so the rows already
\* in it stay in front of the ones written
Product_save_products_appending(self) ==
    [self EXCEPT !.file = [header |-> ProductHeader,
                           rows |-> self.file.rows \o WriteProducts(self.products).rows],
                 !.saves = @ + 1]

\* Product.save_products
Product_save_products(self) ==
    [self EXCEPT !.file = WriteProducts(self.products), !.saves = @ + 1]

\* Product.add_product: appends, saves, returns None
Product_add_product(self, product) ==
    Product_save_products([self EXCEPT !.products = Append(@, product)])

\* a faulty update_product: drops the match and appends the new record, so
\* the record changes place
Product_update_product_moved(self, product_name, updated_product) ==
    LET i == FirstMatch(self.products, product_name)
    IN  IF i = 0 THEN [self EXCEPT !.ret = "False"]
        ELSE Product_save_products(
                 [self EXCEPT !.products = Append(RemoveAt(@, i), updated_product),
                              !.ret = "True"])

\* Product.update_product: replaces the first match, saves, returns True
Product_update_product(self, product_name, updated_product) ==
    LET i == FirstMatch(self.products, product_name)
    IN  IF i = 0 THEN [self EXCEPT !.ret = "False"]
        ELSE Product_save_products(
                 [self EXCEPT !.products[i] = updated_product, !.ret = "True"])

\* Product.delete_product: keeps the products that do not match, saves
Product_delete_product(self, product_name) ==
    Product_save_products(
        [self EXCEPT !.products =
            SelectSeq(@, LAMBDA p : Lower(p.name) # Lower(product_name))])

(* ------------------------ what the last call did ---------------------- *)
NoRecord == [name |-> "", price |-> 0, quantity |-> 0]

\* op: the operation; name, rec, qty: its arguments; found: whether name
\* matched a record when the call began; ret: the store method's return
\* value; msg: the message shown; saves: how often the call opened the file
\* for writing
Did(op, name, rec, qty, found, ret, msg, saves) ==
    [op |-> op, name |-> name, rec |-> rec, qty |-> qty, found |-> found,
     ret |-> ret, msg |-> msg, saves |-> saves]

NoOp == Did("none", "", NoRecord, 0, FALSE, "NotCalled", "none", 0)

\* the handler ran the store call r to its end and showed msg
Finish(r, op, name, rec, qty, found, msg) ==
    /\ products' = r.products
    /\ file' = r.file
    /\ last' = Did(op, name, rec, qty, found, r.ret, msg, r.saves)
    /\ UNCHANGED <<attempt, stock_manager, impl, suppliers, pc>>

\* the same for a handler of a supplier store
FinishSupplier(r, op, name, rec, found, msg) ==
    /\ suppliers' = r.suppliers
    /\ file' = r.file
    /\ last' = Did(op, name, rec, 0, found, r.ret, msg, r.saves)
    /\ UNCHANGED <<attempt, stock_manager, impl, products, pc>>

\* the handler went back to its menu without calling a store method that
\* changes anything
Refuse(op, name, rec, qty, found, msg) ==
    /\ last' = Did(op, name, rec, qty, found, "NotCalled", msg, 0)
    /\ UNCHANGED <<attempt, stock_manager, impl, products, suppliers, file, pc>>

\* the handler answered a question about the store and changed nothing
Answer(op, name, rec, qty, found, ret, msg) ==
    /\ last' = Did(op, name, rec, qty, found, ret, msg, 0)
    /\ UNCHANGED <<attempt, stock_manager, impl, products, suppliers, file, pc>>

\* an exception nothing catches ends the session
Crash(op, name, found, err) ==
    /\ pc' = "crashed"
    /\ last' = Did(op, name, NoRecord, 0, found, "NotCalled", err, 0)
    /\ UNCHANGED <<attempt, stock_manager, impl, products, suppliers, file>>

(* ------------------- Main.py: product_manager_system ------------------ *)
\* choice '1': add a product
Main_product_add ==
    /\ impl = "Main.product" /\ pc = "menu" /\ Len(products) < MaxLen
    /\ \E product_name \in Names, price_in \in PriceInputs :
        LET found == FirstMatch(products, product_name) # 0
        IN  IF price_in \notin FloatTexts
            THEN Crash("Add", product_name, found, "ValueError")
            ELSE \E qty_in \in QtyInputs :
                IF qty_in \notin IntTexts
                THEN Crash("Add", product_name, found, "ValueError")
                ELSE LET product == [name |-> product_name,
                                     price |-> ParseFloat(price_in),
                                     quantity |-> ParseInt(qty_in)]
                         r == Product_save_products(
                                  Product_add_product(Obj(products, file), product))
                     IN  Finish(r, "Add", product_name, product, 0, found, "none")

\* choice '2': update a product; a blank answer keeps the current field
Main_product_update ==
    /\ impl = "Main.product" /\ pc = "menu"
    /\ \E product_name \in Names :
        LET i == Product_search_product(products, product_name)
        IN  IF i = 0
            THEN Refuse("Update", product_name, NoRecord, 0, FALSE, "Product not found!")
            ELSE \E name_in \in Names \cup {""}, price_in \in UpdatePriceInputs :
                IF price_in \notin FloatTexts \cup {""}
                THEN Crash("Update", product_name, TRUE, "ValueError")
                ELSE \E qty_in \in UpdateQtyInputs :
                    IF qty_in \notin IntTexts \cup {""}
                    THEN Crash("Update", product_name, TRUE, "ValueError")
                    ELSE LET updated_product ==
                                 [name |-> IF name_in # "" THEN name_in
                                           ELSE products[i].name,
                                  price |-> IF price_in # "" THEN ParseFloat(price_in)
                                            ELSE products[i].price,
                                  quantity |-> IF qty_in # "" THEN ParseInt(qty_in)
                                               ELSE products[i].quantity]
                             r == Product_save_products(
                                      Product_update_product(Obj(products, file),
                                                             product_name, updated_product))
                         IN  Finish(r, "Update", product_name, updated_product, 0, TRUE,
                                    "updated successfully!")

\* choice '3': remove a product after a y/n confirmation
Main_product_delete ==
    /\ impl = "Main.product" /\ pc = "menu"
    /\ \E product_name \in Names, confirm \in {"y", "n"} :
        LET found == FirstMatch(products, product_name) # 0
        IN  IF confirm # "y"
            THEN Refuse("none", product_name, NoRecord, 0, found, "none")
            ELSE LET r == Product_save_products(
                              Product_delete_product(Obj(products, file), product_name))
                 IN  Finish(r, "Delete", product_name, NoRecord, 0, found,
                            "removed from inventory.")

\* choice '4': look a product up and show it
Main_product_search ==
    /\ impl = "Main.product" /\ pc = "menu"
    /\ \E product_name \in Names :
        LET i == Product_search_product(products, product_name)
        IN  IF i # 0
            THEN Answer("FindByName", product_name, products[i], 0, TRUE,
                        "product", "Product Details:")
            ELSE Answer("FindByName", product_name, NoRecord, 0, FALSE,
                        "None", "Product not found.")

(* -------------------- Main.py: purchase_order_system ------------------ *)
\* what a user can type at the threshold prompt and at an order quantity
\* prompt; a blank threshold takes the default
ThresholdInputs == IntTexts \cup {"", "abc"}
OrderInputs == {IntStr(MaxQty), "abc"}

Main_default_threshold == 10

\* a faulty selection: keeps the products at the threshold as well
Main_low_stock_items_inclusive(ps, threshold) ==
    SelectSeq(ps, LAMBDA product : product.quantity <= threshold)

\* the loop that collects low_stock_items, from index i on
RECURSIVE LowStockFrom(_, _, _)
LowStockFrom(ps, threshold, i) ==
    IF i > Len(ps) THEN <<>>
    ELSE (IF ps[i].quantity < threshold THEN <<ps[i]>> ELSE <<>>)
             \o LowStockFrom(ps, threshold, i + 1)

Main_low_stock_items(ps, threshold) == LowStockFrom(ps, threshold, 1)

\* choice '1': the products below a threshold, and on 'y' an order for each
\* (PurchaseOrder.generate_order only prints)
Main_order_low_stock ==
    /\ impl = "Main.product" /\ pc = "menu"
    /\ \E threshold_in \in ThresholdInputs :
        IF threshold_in \notin IntTexts \cup {""}
        THEN Crash("LowStock", "", FALSE, "ValueError")
        ELSE LET threshold == IF threshold_in = "" THEN Main_default_threshold
                              ELSE ParseInt(threshold_in)
                 low_stock_items ==
                     Main_low_stock_items(
                         Product_get_all_products(Obj(products, file)).items, threshold)
             IN  IF low_stock_items = <<>>
                 THEN Answer("LowStock", "", low_stock_items, threshold, FALSE, "None",
                             "No items below stock threshold!")
                 ELSE \E confirm \in {"y", "n"}, order_in \in OrderInputs :
                     IF confirm = "y" /\ order_in \notin IntTexts
                     THEN Crash("LowStock", "", TRUE, "ValueError")
                     ELSE Answer("LowStock", "", low_stock_items, threshold, TRUE, "None",
                                 IF confirm = "y" THEN "Order generated"
                                 ELSE "Low Stock Items:")

(* ----------------------- main2.py: ProductManager --------------------- *)
\* ProductManager._load
ProductManager_load(f) == IF Exists(f) THEN ReadProducts(f) ELSE <<>>

\* ProductManager._save
ProductManager_save(self) ==
    [self EXCEPT !.file = WriteProducts(self.products), !.saves = @ + 1]

\* ProductManager.get_all_products: returns self.products itself
ProductManager_get_all_products(self) ==
    [object |-> "self.products", items |-> self.products]

\* ProductManager.search_product: index of the product returned, 0 for None
ProductManager_search_product(ps, product_name) == FirstMatch(ps, product_name)

\* a faulty add_product: saves before it appends, so the file misses the
\* new product
ProductManager_add_product_saved_first(self, product) ==
    IF ProductManager_search_product(self.products, product.name) # 0
    THEN [self EXCEPT !.ret = "already exists"]
    ELSE [ProductManager_save(self) EXCEPT !.products = Append(@, product),
                                           !.ret = "added successfully"]

\* ProductManager.add_product: returns None on both paths; ret tells them apart
\* by the message the method prints
ProductManager_add_product(self, product) ==
    IF ProductManager_search_product(self.products, product.name) # 0
    THEN [self EXCEPT !.ret = "already exists"]
    ELSE [ProductManager_save([self EXCEPT !.products = Append(@, product)])
             EXCEPT !.ret = "added successfully"]

\* ProductManager.update_product
ProductManager_update_product(self, product_name, updated_product) ==
    LET i == FirstMatch(self.products, product_name)
    IN  IF i = 0 THEN [self EXCEPT !.ret = "False"]
        ELSE ProductManager_save(
                 [self EXCEPT !.products[i] = updated_product, !.ret = "True"])

\* ProductManager.delete_product: list.remove of the product found
ProductManager_delete_product(self, product_name) ==
    LET i == ProductManager_search_product(self.products, product_name)
    IN  IF i = 0 THEN [self EXCEPT !.ret = "False"]
        ELSE ProductManager_save(
                 [self EXCEPT !.products = ListRemove(@, self.products[i]),
                              !.ret = "True"])

(* ------------------ main2.py: product_manager_system ------------------ *)
\* choice '1'
main2_product_add ==
    /\ impl = "main2" /\ pc = "menu" /\ Len(products) < MaxLen
    /\ \E name \in Names, price_in \in PriceInputs :
        LET found == FirstMatch(products, name) # 0
        IN  IF price_in \notin FloatTexts
            THEN Crash("Add", name, found, "ValueError")
            ELSE \E qty_in \in QtyInputs :
                IF qty_in \notin IntTexts
                THEN Crash("Add", name, found, "ValueError")
                ELSE LET product == [name |-> name, price |-> ParseFloat(price_in),
                                     quantity |-> ParseInt(qty_in)]
                         r == ProductManager_add_product(Obj(products, file), product)
                     IN  Finish(r, "Add", name, product, 0, found,
                                IF r.ret = "already exists"
                                THEN "Error: Product already exists."
                                ELSE "Product added successfully.")

\* choice '2': a blank answer keeps the current field
main2_product_update ==
    /\ impl = "main2" /\ pc = "menu"
    /\ \E name \in Names :
        LET i == ProductManager_search_product(products, name)
        IN  IF i = 0
            THEN Refuse("Update", name, NoRecord, 0, FALSE, "Product not found!")
            ELSE \E name_in \in Names \cup {""}, price_in \in UpdatePriceInputs :
                IF price_in \notin FloatTexts \cup {""}
                THEN Crash("Update", name, TRUE, "ValueError")
                ELSE \E qty_in \in UpdateQtyInputs :
                    IF qty_in \notin IntTexts \cup {""}
                    THEN Crash("Update", name, TRUE, "ValueError")
                    ELSE LET updated_product ==
                                 [name |-> IF name_in # "" THEN name_in
                                           ELSE products[i].name,
                                  price |-> IF price_in # "" THEN ParseFloat(price_in)
                                            ELSE products[i].price,
                                  quantity |-> IF qty_in # "" THEN ParseInt(qty_in)
                                               ELSE products[i].quantity]
                             r == ProductManager_update_product(Obj(products, file), name,
                                                                updated_product)
                         IN  Finish(r, "Update", name, updated_product, 0, TRUE,
                                    "Product data saved")

\* choice '3'
main2_product_delete ==
    /\ impl = "main2" /\ pc = "menu"
    /\ \E name \in Names :
        LET found == FirstMatch(products, name) # 0
            r == ProductManager_delete_product(Obj(products, file), name)
        IN  Finish(r, "Delete", name, NoRecord, 0, found,
                   IF r.ret = "True" THEN "removed successfully."
                   ELSE "Could not find to remove.")

\* choice '4': look a product up and show it
main2_product_search ==
    /\ impl = "main2" /\ pc = "menu"
    /\ \E name \in Names :
        LET i == ProductManager_search_product(products, name)
        IN  IF i # 0
            THEN Answer("FindByName", name, products[i], 0, TRUE,
                        "product", "Details:")
            ELSE Answer("FindByName", name, NoRecord, 0, FALSE,
                        "None", "Product not found.")

(* ------------------- main2.py: purchase_order_system ------------------ *)
main2_default_threshold == 20

\* the list comprehension that selects low_stock_items
main2_low_stock_items(ps, threshold) ==
    SelectSeq(ps, LAMBDA p : p.quantity < threshold)

\* choice '1': the products below a threshold, and on 'y' an order for each
main2_order_low_stock ==
    /\ impl = "main2" /\ pc = "menu"
    /\ \E threshold_in \in ThresholdInputs :
        IF threshold_in \notin IntTexts \cup {""}
        THEN Crash("LowStock", "", FALSE, "ValueError")
        ELSE LET threshold == IF threshold_in = "" THEN main2_default_threshold
                              ELSE ParseInt(threshold_in)
                 low_stock_items ==
                     main2_low_stock_items(
                         ProductManager_get_all_products(Obj(products, file)).items,
                         threshold)
             IN  IF low_stock_items = <<>>
                 THEN Answer("LowStock", "", low_stock_items, threshold, FALSE, "None",
                             "No items are below the stock threshold.")
                 ELSE \E confirm \in {"y", "n"}, order_in \in OrderInputs :
                     IF confirm = "y" /\ order_in \notin IntTexts
                     THEN Crash("LowStock", "", TRUE, "ValueError")
                     ELSE Answer("LowStock", "", low_stock_items, threshold, TRUE, "None",
                                 IF confirm = "y" THEN "Generated Purchase Order:"
                                 ELSE "Items below threshold:")

(* ------------------ main2.py: stock_management_system ----------------- *)
\* choice '1': receive a delivery
main2_stock_receive ==
    /\ impl = "main2" /\ pc = "menu"
    /\ \E name \in Names :
        LET i == ProductManager_search_product(products, name)
        IN  IF i = 0
            THEN Refuse("ReceiveStock", name, NoRecord, 0, FALSE, "Product not found.")
            ELSE \E qty_in \in QtyInputs :
                IF qty_in \notin IntTexts
                THEN Crash("ReceiveStock", name, TRUE, "ValueError")
                ELSE LET quantity == ParseInt(qty_in)
                         r == ProductManager_save(
                                  [Obj(products, file) EXCEPT
                                      !.products[i].quantity = @ + quantity])
                     IN  /\ products[i].quantity + quantity \in Quantities
                         /\ Finish(r, "ReceiveStock", name, NoRecord, quantity, TRUE,
                                   "Stock updated.")

\* choice '2': record a sale
main2_stock_sale ==
    /\ impl = "main2" /\ pc = "menu"
    /\ \E name \in Names :
        LET i == ProductManager_search_product(products, name)
        IN  IF i = 0
            THEN Refuse("RecordSale", name, NoRecord, 0, FALSE, "Product not found.")
            ELSE \E qty_in \in QtyInputs :
                IF qty_in \notin IntTexts
                THEN Crash("RecordSale", name, TRUE, "ValueError")
                ELSE LET quantity == ParseInt(qty_in)
                         r == ProductManager_save(
                                  [Obj(products, file) EXCEPT
                                      !.products[i].quantity = @ - quantity])
                     IN  IF products[i].quantity >= quantity
                         THEN /\ products[i].quantity - quantity \in Quantities
                              /\ Finish(r, "RecordSale", name, NoRecord, quantity, TRUE,
                                        "Sale recorded.")
                         ELSE Refuse("RecordSale", name, NoRecord, quantity, TRUE,
                                     "Error: Not enough stock.")

(* ------------------------------- stock.py ----------------------------- *)
\* Stock.load_products
Stock_load_products(f) == IF Exists(f) THEN ReadProducts(f) ELSE <<>>

\* a save that keeps the rows of the file it does not know: it reads the
\* file back and writes them after its own
Stock_save_products_merging(self) ==
    LET known(p) == \E i \in DOMAIN self.products : self.products[i].name = p.name
        others == SelectSeq(ReadProducts(self.file), LAMBDA p : ~known(p))
    IN  [self EXCEPT !.file = WriteProducts(self.products \o others), !.saves = @ + 1]

\* Stock.save_products
Stock_save_products(self) ==
    [self EXCEPT !.file = WriteProducts(self.products), !.saves = @ + 1]

\* Stock.search_product: index of the product returned, 0 for None
Stock_search_product(ps, product_name) == FirstMatch(ps, product_name)

\* a faulty receive_stock: changes the quantity and forgets to save
Stock_receive_stock_unsaved(self, product_name, quantity) ==
    LET i == Stock_search_product(self.products, product_name)
    IN  IF i # 0
        THEN [self EXCEPT !.products[i].quantity = @ + quantity, !.ret = "True"]
        ELSE [self EXCEPT !.ret = "False"]

\* Stock.receive_stock
Stock_receive_stock(self, product_name, quantity) ==
    LET i == Stock_search_product(self.products, product_name)
    IN  IF i # 0
        THEN Stock_save_products(
                 [self EXCEPT !.products[i].quantity = @ + quantity, !.ret = "True"])
        ELSE [self EXCEPT !.ret = "False"]

\* a faulty record_sale: sells whatever is asked of a product that exists
Stock_record_sale_unchecked(self, product_name, quantity) ==
    LET i == Stock_search_product(self.products, product_name)
    IN  IF i # 0
        THEN Stock_save_products(
                 [self EXCEPT !.products[i].quantity = @ - quantity, !.ret = "True"])
        ELSE [self EXCEPT !.ret = "False"]

\* Stock.record_sale
Stock_record_sale(self, product_name, quantity) ==
    LET i == Stock_search_product(self.products, product_name)
    IN  IF i # 0 /\ self.products[i].quantity >= quantity
        THEN Stock_save_products(
                 [self EXCEPT !.products[i].quantity = @ - quantity, !.ret = "True"])
        ELSE [self EXCEPT !.ret = "False"]

\* a faulty adjust_stock: stores the name as it was typed along with the
\* new quantity
Stock_adjust_stock_renaming(self, product_name, new_quantity) ==
    LET i == Stock_search_product(self.products, product_name)
    IN  IF i # 0
        THEN Stock_save_products(
                 [self EXCEPT !.products[i].quantity = new_quantity,
                              !.products[i].name = product_name, !.ret = "True"])
        ELSE [self EXCEPT !.ret = "False"]

\* Stock.adjust_stock
Stock_adjust_stock(self, product_name, new_quantity) ==
    LET i == Stock_search_product(self.products, product_name)
    IN  IF i # 0
        THEN Stock_save_products(
                 [self EXCEPT !.products[i].quantity = new_quantity, !.ret = "True"])
        ELSE [self EXCEPT !.ret = "False"]

\* every quantity of ps is one the model holds
InRange(ps) == \A i \in DOMAIN ps : ps[i].quantity \in Quantities

\* a caller of Stock, as the module's own example: stock_manager.receive_stock(..)
Stock_receive ==
    /\ impl = "stock" /\ pc = "menu"
    /\ \E product_name \in Names, quantity \in Quantities :
        LET r == Stock_receive_stock(Obj(products, file), product_name, quantity)
        IN  /\ InRange(r.products)
            /\ Finish(r, "ReceiveStock", product_name, NoRecord, quantity,
                      FirstMatch(products, product_name) # 0, "none")

\* stock_manager.record_sale(..)
Stock_sale ==
    /\ impl = "stock" /\ pc = "menu"
    /\ \E product_name \in Names, quantity \in Quantities :
        LET r == Stock_record_sale(Obj(products, file), product_name, quantity)
        IN  /\ InRange(r.products)
            /\ Finish(r, "RecordSale", product_name, NoRecord, quantity,
                      FirstMatch(products, product_name) # 0, "none")

\* stock_manager.adjust_stock(..)
Stock_adjust ==
    /\ impl = "stock" /\ pc = "menu"
    /\ \E product_name \in Names, new_quantity \in Quantities :
        LET r == Stock_adjust_stock(Obj(products, file), product_name, new_quantity)
        IN  Finish(r, "AdjustStock", product_name, NoRecord, new_quantity,
                   FirstMatch(products, product_name) # 0, "none")

(* ----------------- Main.py: stock_management_system ------------------- *)
\* The menu holds a Stock of stock.py, whose search_product returns a Product
\* dataclass. Each handler prints product['quantity'] right after the search:
\* a dataclass is not subscriptable, so for a product that exists the print
\* raises TypeError, nothing catches it, and the lines after it (the prompts
\* and the call of receive_stock, record_sale or adjust_stock) never run.

\* choice '1': receive a delivery
Main_stock_receive ==
    /\ impl = "Main.stock" /\ pc = "menu"
    /\ \E product_name \in Names :
        IF Stock_search_product(products, product_name) = 0
        THEN Refuse("ReceiveStock", product_name, NoRecord, 0, FALSE,
                    "Product not found!")
        ELSE Crash("ReceiveStock", product_name, TRUE, "TypeError")

\* choice '2': record a sale
Main_stock_sale ==
    /\ impl = "Main.stock" /\ pc = "menu"
    /\ \E product_name \in Names :
        IF Stock_search_product(products, product_name) = 0
        THEN Refuse("RecordSale", product_name, NoRecord, 0, FALSE,
                    "Product not found!")
        ELSE Crash("RecordSale", product_name, TRUE, "TypeError")

\* choice '4': set the quantity by hand; past the print, adjust_stock is
\* called with three arguments where stock.py's takes two
Main_stock_adjust ==
    /\ impl = "Main.stock" /\ pc = "menu"
    /\ \E product_name \in Names :
        IF Stock_search_product(products, product_name) = 0
        THEN Refuse("AdjustStock", product_name, NoRecord, 0, FALSE,
                    "Product not found!")
        ELSE Crash("AdjustStock", product_name, TRUE, "TypeError")

(* ------------------------------- main3.py ----------------------------- *)
\* load_csv_data: list(csv.DictReader(file)), the rows as text
load_csv_data(f) == f.rows

\* a faulty check: a missing file is read as an empty table
load_csv_data_exit_never(f) == 0

\* the status load_csv_data ends the process with, 0 when it returns: a
\* path with no file prints CRITICAL ERROR and calls sys.exit(1)
load_csv_data_exit(f) == IF ~Exists(f) THEN 1 ELSE 0

\* save_csv_data: writes header and rows; wr is whether the file could be
\* written, and the except branch only prints
save_csv_data(self, data, headers, wr) ==
    IF wr
    THEN [self EXCEPT !.file = [header |-> headers, rows |-> data], !.saves = @ + 1,
                      !.ret = "Data successfully saved"]
    ELSE [self EXCEPT !.saves = @ + 1, !.ret = "ERROR: Could not save data"]

\* the loop of search_item over the rows from index i on
RECURSIVE ScanRows(_, _, _)
ScanRows(data, name, i) ==
    IF i > Len(data) THEN 0
    ELSE IF Lower(data[i].Name) = Lower(name) THEN i
    ELSE ScanRows(data, name, i + 1)

\* search_item: index of the row returned, 0 for None
search_item(data, name) == ScanRows(data, name, 1)

\* stock_menu, choice '1': record a sale
main3_stock_sale ==
    /\ impl = "main3" /\ pc = "menu"
    /\ \E name \in Names :
        LET i == search_item(products, name)
        IN  IF i = 0
            THEN Refuse("RecordSale", name, NoRecord, 0, FALSE, "Product not found.")
            ELSE \E qty_in \in QtyInputs :
                IF products[i].Quantity \notin IntTexts \/ qty_in \notin IntTexts
                THEN Refuse("RecordSale", name, NoRecord, 0, TRUE,
                            "Invalid input. Please enter a number for the quantity.")
                ELSE LET current_stock == ParseInt(products[i].Quantity)
                         quantity_sold == ParseInt(qty_in)
                         sold == [products EXCEPT
                                     ![i].Quantity = IntStr(current_stock - quantity_sold)]
                     IN  IF 0 < quantity_sold /\ quantity_sold <= current_stock
                         THEN \E wr \in BOOLEAN :
                             LET r == save_csv_data(Obj(sold, file), sold,
                                                    ProductHeader, wr)
                             IN  Finish(r, "RecordSale", name, NoRecord, quantity_sold,
                                        TRUE, r.ret)
                         ELSE Refuse("RecordSale", name, NoRecord, quantity_sold, TRUE,
                                     "Invalid quantity or not enough stock.")

\* stock_menu, choice '2': receive a delivery
main3_stock_receive ==
    /\ impl = "main3" /\ pc = "menu"
    /\ \E name \in Names :
        LET i == search_item(products, name)
        IN  IF i = 0
            THEN Refuse("ReceiveStock", name, NoRecord, 0, FALSE, "Product not found.")
            ELSE \E qty_in \in QtyInputs :
                IF products[i].Quantity \notin IntTexts \/ qty_in \notin IntTexts
                THEN Refuse("ReceiveStock", name, NoRecord, 0, TRUE,
                            "Invalid input. Please enter a number for the quantity.")
                ELSE LET current_stock == ParseInt(products[i].Quantity)
                         quantity_received == ParseInt(qty_in)
                         got == [products EXCEPT
                                    ![i].Quantity =
                                        IntStr(current_stock + quantity_received)]
                     IN  IF quantity_received > 0
                         THEN /\ current_stock + quantity_received \in Quantities
                              /\ \E wr \in BOOLEAN :
                                  LET r == save_csv_data(Obj(got, file), got,
                                                         ProductHeader, wr)
                                  IN  Finish(r, "ReceiveStock", name, NoRecord,
                                             quantity_received, TRUE, r.ret)
                         ELSE Refuse("ReceiveStock", name, NoRecord, quantity_received,
                                     TRUE, "Quantity must be a positive number.")

(* ------------------------------ Supplier.py --------------------------- *)
SupplierPyHeader == <<"Name", "Supplier_Contact_Information", "Supplier_Product_Category">>

\* a supplier store object and what one call on it did
SObj(ss, f) == [suppliers |-> ss, file |-> f, ret |-> "None", saves |-> 0]

\* index of the first supplier whose name matches case-insensitively, 0 if none
FirstSupplier(ss, supplier_name) == ScanFrom(ss, supplier_name, 1)

\* Supplier.load_suppliers of Supplier.py
SupplierPy_load_suppliers(f) ==
    [i \in DOMAIN f.rows |->
        [name |-> f.rows[i].Name,
         supplier_contact_information |-> f.rows[i].Supplier_Contact_Information,
         supplier_product_category |-> f.rows[i].Supplier_Product_Category]]

\* Supplier.save_supplier
SupplierPy_save_supplier(self) ==
    [self EXCEPT
        !.file = [header |-> SupplierPyHeader,
                  rows |-> [i \in DOMAIN self.suppliers |->
                      [Name |-> self.suppliers[i].name,
                       Supplier_Contact_Information |->
                           self.suppliers[i].supplier_contact_information,
                       Supplier_Product_Category |->
                           self.suppliers[i].supplier_product_category]]],
        !.saves = @ + 1]

\* Supplier.search_supplier: index of the supplier returned, 0 for None
SupplierPy_search_supplier(ss, supplier_name) == FirstSupplier(ss, supplier_name)

\* Supplier.add_supplier: appends, saves
SupplierPy_add_supplier(self, supplier) ==
    SupplierPy_save_supplier([self EXCEPT !.suppliers = Append(@, supplier)])

\* Supplier.update_supplier: replaces the first match, saves, returns True
SupplierPy_update_supplier(self, supplier_name, updated_supplier) ==
    LET i == FirstSupplier(self.suppliers, supplier_name)
    IN  IF i = 0 THEN [self EXCEPT !.ret = "False"]
        ELSE SupplierPy_save_supplier(
                 [self EXCEPT !.suppliers[i] = updated_supplier, !.ret = "True"])

\* Supplier.delete_supplier: keeps the suppliers that do not match, saves
SupplierPy_delete_supplier(self, supplier_name) ==
    SupplierPy_save_supplier(
        [self EXCEPT !.suppliers =
            SelectSeq(@, LAMBDA s : Lower(s.name) # Lower(supplier_name))])

(* ------------------ Main.py: supplier_manager_system ------------------ *)
\* choice '1': add a supplier
Main_supplier_add ==
    /\ impl = "Main.supplier" /\ pc = "menu" /\ Len(suppliers) < MaxLen
    /\ \E supplier_name \in Names, supplier_contact \in Contacts,
          supplier_category \in Categories :
        LET supplier == [name |-> supplier_name,
                         supplier_contact_information |-> supplier_contact,
                         supplier_product_category |-> supplier_category]
            r == SupplierPy_save_supplier(
                     SupplierPy_add_supplier(SObj(suppliers, file), supplier))
        IN  FinishSupplier(r, "Add", supplier_name, supplier,
                           FirstSupplier(suppliers, supplier_name) # 0, "none")

\* choice '2': update a supplier; a blank answer keeps the current field
Main_supplier_update ==
    /\ impl = "Main.supplier" /\ pc = "menu"
    /\ \E supplier_name \in Names :
        LET i == SupplierPy_search_supplier(suppliers, supplier_name)
        IN  IF i = 0
            THEN Refuse("Update", supplier_name, NoRecord, 0, FALSE, "Supplier not found!")
            ELSE \E updated_name \in Names \cup {""},
                    updated_contact \in UpdateContactInputs,
                    updated_category \in UpdateCategoryInputs :
                LET updated_supplier ==
                        [name |-> IF updated_name # "" THEN updated_name
                                  ELSE suppliers[i].name,
                         supplier_contact_information |->
                             IF updated_contact # "" THEN updated_contact
                             ELSE suppliers[i].supplier_contact_information,
                         supplier_product_category |->
                             IF updated_category # "" THEN updated_category
                             ELSE suppliers[i].supplier_product_category]
                    r == SupplierPy_save_supplier(
                             SupplierPy_update_supplier(SObj(suppliers, file),
                                                        supplier_name, updated_supplier))
                IN  FinishSupplier(r, "Update", supplier_name, updated_supplier, TRUE,
                                   "Supplier updated successfully!")

\* choice '3': remove a supplier after a y/n confirmation
Main_supplier_delete ==
    /\ impl = "Main.supplier" /\ pc = "menu"
    /\ \E supplier_name \in Names, confirm \in {"y", "n"} :
        LET found == FirstSupplier(suppliers, supplier_name) # 0
        IN  IF confirm # "y"
            THEN Refuse("none", supplier_name, NoRecord, 0, found, "none")
            ELSE LET r == SupplierPy_save_supplier(
                              SupplierPy_delete_supplier(SObj(suppliers, file),
                                                         supplier_name))
                 IN  FinishSupplier(r, "Delete", supplier_name, NoRecord, found,
                                    "removed from suppliers.")

(* ------------------------------ supplier.py --------------------------- *)
SupplierHeader == <<"Name", "ContactInfo", "ProductCategory">>

\* Supplier.load_suppliers of supplier.py: SupplierData objects
Supplier_load_suppliers(f) ==
    [i \in DOMAIN f.rows |->
        [name |-> f.rows[i].Name,
         contact_info |-> f.rows[i].ContactInfo,
         product_category |-> f.rows[i].ProductCategory]]

\* Supplier.save_suppliers
Supplier_save_suppliers(self) ==
    [self EXCEPT
        !.file = [header |-> SupplierHeader,
                  rows |-> [i \in DOMAIN self.suppliers |->
                      [Name |-> self.suppliers[i].name,
                       ContactInfo |-> self.suppliers[i].contact_info,
                       ProductCategory |-> self.suppliers[i].product_category]]],
        !.saves = @ + 1]

\* Supplier.search_supplier: index of the supplier returned, 0 for None
Supplier_search_supplier(ss, supplier_name) == FirstSupplier(ss, supplier_name)

\* Supplier.add_supplier: appends and saves unless the name is taken; returns
\* None and prints nothing either way
Supplier_add_supplier(self, supplier_data) ==
    IF Supplier_search_supplier(self.suppliers, supplier_data.name) = 0
    THEN Supplier_save_suppliers([self EXCEPT !.suppliers = Append(@, supplier_data)])
    ELSE self

\* Supplier.delete_supplier
Supplier_delete_supplier(self, supplier_name) ==
    Supplier_save_suppliers(
        [self EXCEPT !.suppliers =
            SelectSeq(@, LAMBDA s : Lower(s.name) # Lower(supplier_name))])

\* a caller of supplier.py, as the module's own example:
\* supplier_manager.add_supplier(SupplierData(..))
Supplier_add ==
    /\ impl = "supplier" /\ pc = "menu" /\ Len(suppliers) < MaxLen
    /\ \E name \in Names, contact_info \in Contacts, product_category \in Categories :
        LET supplier_data == [name |-> name, contact_info |-> contact_info,
                              product_category |-> product_category]
            r == Supplier_add_supplier(SObj(suppliers, file), supplier_data)
        IN  FinishSupplier(r, "Add", name, supplier_data,
                           FirstSupplier(suppliers, name) # 0, "none")

\* supplier_manager.delete_supplier(..)
Supplier_delete ==
    /\ impl = "supplier" /\ pc = "menu"
    /\ \E supplier_name \in Names :
        LET r == Supplier_delete_supplier(SObj(suppliers, file), supplier_name)
        IN  FinishSupplier(r, "Delete", supplier_name, NoRecord,
                           FirstSupplier(suppliers, supplier_name) # 0, "none")

(* ----------------------- main2.py: SupplierManager -------------------- *)
\* SupplierManager._load
SupplierManager_load(f) ==
    [i \in DOMAIN f.rows |->
        [name |-> f.rows[i].Name,
         contact |-> f.rows[i].ContactInfo,
         category |-> f.rows[i].ProductCategory]]

\* SupplierManager._save
SupplierManager_save(self) ==
    [self EXCEPT
        !.file = [header |-> SupplierHeader,
                  rows |-> [i \in DOMAIN self.suppliers |->
                      [Name |-> self.suppliers[i].name,
                       ContactInfo |-> self.suppliers[i].contact,
                       ProductCategory |-> self.suppliers[i].category]]],
        !.saves = @ + 1]

\* SupplierManager.search_supplier: index of the supplier returned, 0 for None
SupplierManager_search_supplier(ss, supplier_name) == FirstSupplier(ss, supplier_name)

\* SupplierManager.add_supplier: returns None on both paths; ret tells them
\* apart by the message the method prints
SupplierManager_add_supplier(self, supplier) ==
    IF SupplierManager_search_supplier(self.suppliers, supplier.name) # 0
    THEN [self EXCEPT !.ret = "already exists"]
    ELSE [SupplierManager_save([self EXCEPT !.suppliers = Append(@, supplier)])
             EXCEPT !.ret = "added successfully"]

\* SupplierManager.update_supplier
SupplierManager_update_supplier(self, supplier_name, updated_supplier) ==
    LET i == FirstSupplier(self.suppliers, supplier_name)
    IN  IF i = 0 THEN [self EXCEPT !.ret = "False"]
        ELSE SupplierManager_save(
                 [self EXCEPT !.suppliers[i] = updated_supplier, !.ret = "True"])

\* SupplierManager.delete_supplier: list.remove of the supplier found
SupplierManager_delete_supplier(self, supplier_name) ==
    LET i == SupplierManager_search_supplier(self.suppliers, supplier_name)
    IN  IF i = 0 THEN [self EXCEPT !.ret = "False"]
        ELSE SupplierManager_save(
                 [self EXCEPT !.suppliers = ListRemove(@, self.suppliers[i]),
                              !.ret = "True"])

(* ------------------ main2.py: supplier_manager_system ----------------- *)
\* choice '1'
main2_supplier_add ==
    /\ impl = "main2.supplier" /\ pc = "menu" /\ Len(suppliers) < MaxLen
    /\ \E name \in Names, contact \in Contacts, category \in Categories :
        LET supplier == [name |-> name, contact |-> contact, category |-> category]
            r == SupplierManager_add_supplier(SObj(suppliers, file), supplier)
        IN  FinishSupplier(r, "Add", name, supplier, FirstSupplier(suppliers, name) # 0,
                           IF r.ret = "already exists"
                           THEN "Error: Supplier already exists."
                           ELSE "Supplier added successfully.")

\* choice '2': a blank answer keeps the current field
main2_supplier_update ==
    /\ impl = "main2.supplier" /\ pc = "menu"
    /\ \E name \in Names :
        LET i == SupplierManager_search_supplier(suppliers, name)
        IN  IF i = 0
            THEN Refuse("Update", name, NoRecord, 0, FALSE, "Supplier not found!")
            ELSE \E new_name \in Names \cup {""}, new_contact \in UpdateContactInputs,
                    new_category \in UpdateCategoryInputs :
                LET updated_supplier ==
                        [name |-> IF new_name # "" THEN new_name ELSE suppliers[i].name,
                         contact |-> IF new_contact # "" THEN new_contact
                                     ELSE suppliers[i].contact,
                         category |-> IF new_category # "" THEN new_category
                                      ELSE suppliers[i].category]
                    r == SupplierManager_update_supplier(SObj(suppliers, file), name,
                                                         updated_supplier)
                IN  FinishSupplier(r, "Update", name, updated_supplier, TRUE,
                                   "Supplier data saved")

\* choice '3'
main2_supplier_delete ==
    /\ impl = "main2.supplier" /\ pc = "menu"
    /\ \E name \in Names :
        LET r == SupplierManager_delete_supplier(SObj(suppliers, file), name)
        IN  FinishSupplier(r, "Delete", name, NoRecord, FirstSupplier(suppliers, name) # 0,
                           IF r.ret = "True" THEN "removed successfully."
                           ELSE "Could not find to remove.")

(* ------------------------------ sessions ------------------------------ *)
\* the variants of the program: Main.py's product menu over product.py,
\* main2.py, callers of stock.py, Main.py's stock menu over stock.py, and
\* main3.py
ProductImpls == {"Main.product", "main2", "stock", "Main.stock", "main3"}

\* and the supplier stores: Main.py's supplier menu over Supplier.py,
\* callers of supplier.py, and main2.py's supplier menu
SupplierImpls == {"Main.supplier", "supplier", "main2.supplier"}

Impls == ProductImpls \cup SupplierImpls

\* whether the session holds its products as parsed records (name, price,
\* quantity) or, in main3.py, as the rows of text the CSV reader gave
Typed == impl # "main3"

\* the product tables a session can start from: well-formed rows, names
\* pairwise distinct case-insensitively, no negative quantity
InitRows == {r \in ProductRows : ParseInt(r.Quantity) >= 0}

\* the sequences of at most MaxLen rows of S with pairwise distinct names
DistinctRows(S) ==
    {s \in UNION {[1 .. n -> S] : n \in 0 .. MaxLen} :
        \A i, j \in DOMAIN s : i # j => Lower(s[i].Name) # Lower(s[j].Name)}

InitFiles ==
    {[header |-> ProductHeader, rows |-> rs] : rs \in DistinctRows(InitRows)}

\* the supplier tables a session can start from, under either header
InitSupplierPyFiles ==
    {[header |-> SupplierPyHeader, rows |-> rs] :
        rs \in DistinctRows([Name : Names, Supplier_Contact_Information : Contacts,
                             Supplier_Product_Category : Categories])}

InitSupplierFiles ==
    {[header |-> SupplierHeader, rows |-> rs] :
        rs \in DistinctRows([Name : Names, ContactInfo : Contacts,
                             ProductCategory : Categories])}

\* what the session's store holds when constructed over the file f
Construct(f) ==
    CASE impl = "Main.product" -> Product_load_products(f)
      [] impl = "main2" -> ProductManager_load(f)
      [] impl = "stock" -> Stock_load_products(f)
      [] impl = "Main.stock" -> Stock_load_products(f)
      [] impl = "main3" -> load_csv_data(f)
      [] impl = "Main.supplier" -> SupplierPy_load_suppliers(f)
      [] impl = "supplier" -> Supplier_load_suppliers(f)
      [] impl = "main2.supplier" -> SupplierManager_load(f)

\* the header the session's store writes
HeaderOf ==
    CASE impl \in ProductImpls -> ProductHeader
      [] impl = "Main.supplier" -> SupplierPyHeader
      [] OTHER -> SupplierHeader

Init ==
    /\ impl \in Impls
    /\ file \in CASE impl \in ProductImpls -> InitFiles
                 [] impl = "Main.supplier" -> InitSupplierPyFiles
                 [] OTHER -> InitSupplierFiles
    /\ products = IF impl \in ProductImpls THEN Construct(file) ELSE <<>>
    /\ suppliers = IF impl \in SupplierImpls THEN Construct(file) ELSE <<>>
    /\ pc = "menu"
    /\ last = NoOp
    /\ attempt = 0
    /\ stock_manager = NotConstructed

Next ==
    \/ Main_product_add
    \/ Main_product_update
    \/ Main_product_delete
    \/ main2_product_add
    \/ main2_product_update
    \/ main2_product_delete
    \/ main2_stock_receive
    \/ main2_stock_sale
    \/ Stock_receive
    \/ Stock_sale
    \/ Stock_adjust
    \/ Main_stock_receive
    \/ Main_stock_sale
    \/ Main_stock_adjust
    \/ main3_stock_sale
    \/ main3_stock_receive
    \/ Main_supplier_add
    \/ Main_supplier_update
    \/ Main_supplier_delete
    \/ Supplier_add
    \/ Supplier_delete
    \/ main2_supplier_add
    \/ main2_supplier_update
    \/ main2_supplier_delete

Spec == Init /\ [][Next]_vars

(* ------------------- callers of the listing methods ------------------- *)
\* Supplier.get_all_suppliers of supplier.py: returns self.suppliers itself
Supplier_get_all_suppliers(self) ==
    [object |-> "self.suppliers", items |-> self.suppliers]

\* what a caller can do to a list it holds: append a record, pop the last
\* one, assign to the first element
ListEdits == {"append", "pop", "setitem"}

EditList(items, edit, rec) ==
    CASE edit = "append" -> Append(items, rec)
      [] edit = "pop" -> SubSeq(items, 1, Len(items) - 1)
      [] edit = "setitem" -> [items EXCEPT ![1] = rec]

\* whether edit can be made on a list of that length
CanEdit(items, edit) ==
    IF edit = "append" THEN Len(items) < MaxLen ELSE items # <<>>

\* a caller takes the list of Product.get_all_products and edits it: the
\* edit lands on the object the caller holds, which is the store's own list
\* when that is what the method returned
Product_listing_edited ==
    /\ impl = "Main.product" /\ pc = "menu"
    /\ \E edit \in ListEdits :
        LET listing == Product_get_all_products(Obj(products, file))
            edited == EditList(listing.items, edit,
                               [name |-> "Latte", price |-> 25, quantity |-> 0])
        IN  /\ CanEdit(listing.items, edit)
            /\ products' = IF listing.object = "self.products" THEN edited ELSE products
            /\ last' = Did("ListAll", "", edited, 0, FALSE, "list", edit, 0)
            /\ UNCHANGED <<attempt, stock_manager, impl, suppliers, file, pc>>

\* the same caller over ProductManager.get_all_products
ProductManager_listing_edited ==
    /\ impl = "main2" /\ pc = "menu"
    /\ \E edit \in ListEdits :
        LET listing == ProductManager_get_all_products(Obj(products, file))
            edited == EditList(listing.items, edit,
                               [name |-> "Latte", price |-> 25, quantity |-> 0])
        IN  /\ CanEdit(listing.items, edit)
            /\ products' = IF listing.object = "self.products" THEN edited ELSE products
            /\ last' = Did("ListAll", "", edited, 0, FALSE, "list", edit, 0)
            /\ UNCHANGED <<attempt, stock_manager, impl, suppliers, file, pc>>

\* and over Supplier.get_all_suppliers of supplier.py
Supplier_listing_edited ==
    /\ impl = "supplier" /\ pc = "menu"
    /\ \E edit \in ListEdits :
        LET listing == Supplier_get_all_suppliers(SObj(suppliers, file))
            edited == EditList(listing.items, edit,
                               [name |-> "Latte", contact_info |-> "b@cafe",
                                product_category |-> "Coffee"])
        IN  /\ CanEdit(listing.items, edit)
            /\ suppliers' = IF listing.object = "self.suppliers" THEN edited ELSE suppliers
            /\ last' = Did("ListAll", "", edited, 0, FALSE, "list", edit, 0)
            /\ UNCHANGED <<attempt, stock_manager, impl, products, file, pc>>

\* a caller takes the list of Product.get_all_products, then adds a product
\* to the store and looks at the list again: add_product appends to
\* self.products in place, so a list that is that object has grown
Product_listing_then_add ==
    /\ impl = "Main.product" /\ pc = "menu" /\ Len(products) < MaxLen
    /\ \E product_name \in Names :
        LET listing == Product_get_all_products(Obj(products, file))
            product == [name |-> product_name, price |-> 25, quantity |-> 0]
            r == Product_add_product(Obj(products, file), product)
            seen == IF listing.object = "self.products" THEN r.products
                    ELSE listing.items
        IN  /\ products' = r.products
            /\ file' = r.file
            /\ last' = Did("ListAllThenAdd", product_name, seen, 0,
                           FirstMatch(products, product_name) # 0, r.ret, "none", r.saves)
            /\ UNCHANGED <<attempt, stock_manager, impl, suppliers, pc>>

(* ------------------------------ queries ------------------------------- *)
\* A session that only asks: searches, the low-stock order, listings. Its
\* table can be any the program reads, names that repeat included (load
\* keeps every row it is given).
QueryImpls == {"Main.product", "main2", "supplier"}

QueryFiles ==
    {[header |-> ProductHeader, rows |-> rs] :
        rs \in UNION {[1 .. n -> {r \in InitRows : r.Price = "2.5"}] : n \in 0 .. MaxLen}}

QueryInit ==
    /\ impl \in QueryImpls
    /\ file \in IF impl \in ProductImpls THEN QueryFiles ELSE InitSupplierFiles
    /\ products = IF impl \in ProductImpls THEN Construct(file) ELSE <<>>
    /\ suppliers = IF impl \in SupplierImpls THEN Construct(file) ELSE <<>>
    /\ pc = "menu"
    /\ last = NoOp
    /\ attempt = 0
    /\ stock_manager = NotConstructed

QueryNext ==
    \/ Main_product_search
    \/ main2_product_search
    \/ Main_order_low_stock
    \/ main2_order_low_stock
    \/ Product_listing_edited
    \/ ProductManager_listing_edited
    \/ Supplier_listing_edited
    \/ Product_listing_then_add

QuerySpec == QueryInit /\ [][QueryNext]_vars

\* the search method of the session's store
search(ps, name) ==
    CASE impl = "Main.product" -> Product_search_product(ps, name)
      [] impl = "main2" -> ProductManager_search_product(ps, name)
      [] impl \in {"stock", "Main.stock"} -> Stock_search_product(ps, name)
      [] impl = "main3" -> search_item(ps, name)
      [] impl = "Main.supplier" -> SupplierPy_search_supplier(ps, name)
      [] impl = "supplier" -> Supplier_search_supplier(ps, name)
      [] impl = "main2.supplier" -> SupplierManager_search_supplier(ps, name)

(* ------------------------------ start-up ------------------------------ *)
\* The start of a session, from the launch of the script to its main menu
\* or its exit. file is the table the session is followed through; the
\* session's other table is there or not (other_exists).
StartImpls == {"Main.product", "main2", "main2.supplier", "main3"}

\* the process ended with that exit status
Exit(status, msg) ==
    /\ pc' = "exited"
    /\ last' = Did("Start", "", NoRecord, 0, FALSE, status, msg, 0)
    /\ UNCHANGED <<attempt, stock_manager, impl, products, suppliers, file>>

\* the session reached its main menu, its store constructed over the file
EnterMenu ==
    /\ pc' = "menu"
    /\ products' = IF impl \in ProductImpls THEN Construct(file) ELSE <<>>
    /\ suppliers' = IF impl \in SupplierImpls THEN Construct(file) ELSE <<>>
    /\ last' = Did("Start", "", NoRecord, 0, FALSE, "None", "Main Menu", 0)
    /\ UNCHANGED <<attempt, stock_manager, impl, file>>

\* Main.py: past the login loop the menus construct their stores;
\* load_products takes a missing file for an empty table
Main_product_manager_start ==
    /\ impl = "Main.product" /\ pc = "start"
    /\ EnterMenu

\* main2.py, main: both tables must exist, or the script exits with 1
\* before the login
main2_main ==
    /\ impl \in {"main2", "main2.supplier"} /\ pc = "start"
    /\ \E other_exists \in BOOLEAN :
        IF ~Exists(file) \/ ~other_exists
        THEN Exit("exit 1", "Error: Make sure the files exist")
        ELSE /\ pc' = "login"
             /\ last' = Did("Start", "", NoRecord, 0, FALSE, "None", "Login System", 0)
             /\ UNCHANGED <<attempt, stock_manager, impl, products, suppliers, file>>

\* main2.py, login_system returned True: the managers are instantiated
main2_logged_in ==
    /\ impl \in {"main2", "main2.supplier"} /\ pc = "login"
    /\ EnterMenu

\* main3.py, main: login() comes first and a failed login returns from main
main3_main ==
    /\ impl = "main3" /\ pc = "start"
    /\ \E logged_in \in BOOLEAN :
        IF ~logged_in
        THEN Exit("exit 0", "Too many failed login attempts. Exiting.")
        ELSE /\ pc' = "load"
             /\ last' = Did("Start", "", NoRecord, 0, FALSE, "None", "Login successful!", 0)
             /\ UNCHANGED <<attempt, stock_manager, impl, products, suppliers, file>>

\* main3.py, main: the two load_csv_data calls, each fatal on a missing file
main3_load ==
    /\ impl = "main3" /\ pc = "load"
    /\ \E other_exists \in BOOLEAN :
        IF load_csv_data_exit(file) # 0
        THEN Exit("exit 1", "CRITICAL ERROR: The data file was not found.")
        ELSE IF ~other_exists
        THEN Exit("exit 1", "CRITICAL ERROR: The data file was not found.")
        ELSE EnterMenu

StartInit ==
    /\ impl \in StartImpls
    /\ file \in {MissingFile} \cup
                 (IF impl \in ProductImpls THEN InitFiles ELSE InitSupplierFiles)
    /\ products = <<>>
    /\ suppliers = <<>>
    /\ pc = "start"
    /\ last = NoOp
    /\ attempt = 0
    /\ stock_manager = NotConstructed

StartNext ==
    \/ Main_product_manager_start
    \/ main2_main
    \/ main2_logged_in
    \/ main3_main
    \/ main3_load

StartSpec == StartInit /\ [][StartNext]_vars

(* ------------------------- loading messy tables ----------------------- *)
\* The construction of a product store over a table that may hold rows
\* whose Price or Quantity is not the text of a number.
LoadImpls == {"Main.product", "main2", "stock", "main3"}

\* float(row['Price']) or int(row['Quantity']) raises ValueError on the row
Malformed(row) == row.Price \notin FloatTexts \/ row.Quantity \notin IntTexts

\* the reading loop of the typed loaders raises on the first such row and
\* nothing catches it: load_products returns no list at all
ReadRaises(f) == Exists(f) /\ \E i \in DOMAIN f.rows : Malformed(f.rows[i])

MessyRows == [Name : {"Tea", "Latte"}, Price : {"2.5", "abc"}, Quantity : {"1", "abc"}]

MessyFiles ==
    {[header |-> ProductHeader, rows |-> rs] :
        rs \in UNION {[1 .. n -> MessyRows] : n \in 0 .. MaxLen}}

\* Product(path), ProductManager(path), Stock(path): __init__ assigns
\* self.products the list the loader returns, or ends on its ValueError
Product_init ==
    /\ impl \in {"Main.product", "main2", "stock"} /\ pc = "start"
    /\ IF ReadRaises(file)
       THEN Crash("Load", "", FALSE, "ValueError")
       ELSE /\ pc' = "menu"
            /\ products' = Construct(file)
            /\ last' = Did("Load", "", NoRecord, 0, FALSE, "None", "loaded", 0)
            /\ UNCHANGED <<attempt, stock_manager, impl, suppliers, file>>

\* main3.py, main: products = load_csv_data(PRODUCTS_FILE) keeps every row
\* as the text the reader gave
main3_init ==
    /\ impl = "main3" /\ pc = "start"
    /\ pc' = "menu"
    /\ products' = load_csv_data(file)
    /\ last' = Did("Load", "", NoRecord, 0, FALSE, "None", "loaded", 0)
    /\ UNCHANGED <<attempt, stock_manager, impl, suppliers, file>>

\* product_menu: the last line printed for the rows; a row whose Price or
\* Quantity does not convert is reported and the listing carries on
product_menu_lines(ps) ==
    IF ps = <<>> THEN "No products found."
    ELSE IF \E i \in DOMAIN ps : Malformed(ps[i])
    THEN "Invalid data for this item."
    ELSE "Press Enter to return to the main menu."

\* main3.py main menu, choice '1': view all products
main3_product_menu ==
    /\ impl = "main3" /\ pc = "menu"
    /\ Answer("ListAll", "", NoRecord, 0, products # <<>>, "None",
              product_menu_lines(products))

LoadInit ==
    /\ impl \in LoadImpls
    /\ file \in MessyFiles
    /\ products = <<>>
    /\ suppliers = <<>>
    /\ pc = "start"
    /\ last = NoOp
    /\ attempt = 0
    /\ stock_manager = NotConstructed

LoadNext ==
    \/ Product_init
    \/ main3_init
    \/ main3_product_menu

LoadSpec == LoadInit /\ [][LoadNext]_vars

(* ------------------------------ the login ---------------------------- *)
\* The login of the three scripts, one prompt for a username and, if it is
\* known, a password per step. last.name and last.rec hold what was typed,
\* last.qty the number of failed attempts so far.
LoginImpls == {"Main.product", "main2", "main3"}

\* how many failed attempts the model follows a login loop for
MaxAttempts == 4

\* range(3) of main3.py's login
main3_login_attempts == 3

Usernames == {"admin", "Admin", "guest"}
Passwords == {"test", "TEST", "guess"}

Credentials(username, password) == [username |-> username, password |-> password]

\* the credential check of each script: whether the pair is accepted
Main_login_accepts(username_input, password_input) ==
    /\ Lower(username_input) \in {"admin", "ADMIN"}
    /\ Lower(password_input) \in {"test", "TEST"}

main2_login_accepts(typed, password) ==
    LET username == Lower(typed)
    IN  username = "admin" /\ password = "test"

main3_login_accepts(typed, password) ==
    LET username == Lower(typed)
    IN  username = "admin" /\ password = "test"

\* the loop printed an error and has not ended
LoginFailed(username, password, msg) ==
    /\ last' = Did("Login", username, Credentials(username, password),
                   last.qty + 1, FALSE, "None", msg, 0)
    /\ UNCHANGED <<impl, products, suppliers, file, pc, stock_manager>>

\* Main.py, the module-level loop: while True, left only by the break of
\* a successful login; the main menu follows
Main_login ==
    /\ impl = "Main.product" /\ pc = "login" /\ last.qty < MaxAttempts
    /\ \E username_input \in Usernames, password_input \in Passwords :
        IF Main_login_accepts(username_input, password_input)
        THEN /\ pc' = "menu"
             /\ last' = Did("Login", username_input,
                            Credentials(username_input, password_input),
                            last.qty, TRUE, "None", "Login successful", 0)
             /\ UNCHANGED <<impl, products, suppliers, file, attempt, stock_manager>>
        ELSE /\ LoginFailed(username_input, password_input,
                         IF Lower(username_input) \in {"admin", "ADMIN"}
                         THEN "Incorrect password, try the login system again"
                         ELSE "Login error. Please try again")
             /\ UNCHANGED attempt

\* main2.py, login_system: while True, returns only True; main then
\* instantiates the managers
main2_login_system ==
    /\ impl = "main2" /\ pc = "login" /\ last.qty < MaxAttempts
    /\ \E username \in Usernames, password \in Passwords :
        IF main2_login_accepts(username, password)
        THEN /\ pc' = "menu"
             /\ products' = Construct(file)
             /\ last' = Did("Login", username, Credentials(username, password),
                            last.qty, TRUE, "True", "Login successful", 0)
             /\ UNCHANGED <<impl, suppliers, file, attempt, stock_manager>>
        ELSE /\ LoginFailed(username, password,
                         IF Lower(username) = "admin"
                         THEN "Incorrect password. Please try again."
                         ELSE "Username not found. Please try again.")
             /\ UNCHANGED attempt

\* main3.py, login: one pass of for attempt in range(3); the pass after
\* the last failure is the return False, on which main returns
main3_login ==
    /\ impl = "main3" /\ pc = "login"
    /\ IF attempt < main3_login_attempts
       THEN \E username \in Usernames, password \in Passwords :
               IF main3_login_accepts(username, password)
               THEN /\ pc' = "load"
                    /\ last' = Did("Login", username, Credentials(username, password),
                                   last.qty, TRUE, "True", "Login successful! Welcome.", 0)
                    /\ UNCHANGED <<impl, products, suppliers, file, attempt, stock_manager>>
               ELSE /\ LoginFailed(username, password,
                                IF Lower(username) = "admin"
                                THEN "Incorrect password."
                                ELSE "Username not found.")
                    /\ attempt' = attempt + 1
       ELSE /\ pc' = "exited"
            /\ last' = [last EXCEPT !.ret = "False",
                                    !.msg = "Too many failed login attempts. Exiting."]
            /\ UNCHANGED <<impl, products, suppliers, file, attempt, stock_manager>>

LoginInit ==
    /\ impl \in LoginImpls
    /\ file \in InitFiles
    /\ products = <<>>
    /\ suppliers = <<>>
    /\ pc = "login"
    /\ last = [NoOp EXCEPT !.op = "Login"]
    /\ attempt = 0
    /\ stock_manager = NotConstructed

LoginNext ==
    \/ Main_login
    \/ main2_login_system
    \/ main3_login
    \/ main3_load

LoginSpec == LoginInit /\ [][LoginNext]_vars

(* ------------------- two instances over one file ---------------------- *)
\* Two processes over the same path: the Product of Main.py's product menu
\* (products) and a Stock of stock.py held by a second process
\* (stock_manager). Each loads the file once, in its constructor, and
\* rewrites it whole at each save; nothing locks the file between them.
\* Stock(path): __init__ loads the file as it is at that moment
Stock_init ==
    /\ ~stock_manager.constructed
    /\ stock_manager' = [constructed |-> TRUE, products |-> Stock_load_products(file)]
    /\ last' = Did("Load", "", NoRecord, 0, FALSE, "None", "none", 0)
    /\ UNCHANGED <<impl, products, suppliers, file, pc, attempt>>

\* the second process finished the Stock call r
FinishStock(r, op, name, qty) ==
    /\ stock_manager' = [stock_manager EXCEPT !.products = r.products]
    /\ file' = r.file
    /\ last' = Did(op, name, NoRecord, qty,
                   Stock_search_product(stock_manager.products, name) # 0,
                   r.ret, "none", r.saves)
    /\ UNCHANGED <<impl, products, suppliers, pc, attempt>>

\* the second process: stock_manager.receive_stock(..)
Second_receive_stock ==
    /\ stock_manager.constructed
    /\ \E product_name \in Names, quantity \in 1 .. MaxQty :
        LET r == Stock_receive_stock(Obj(stock_manager.products, file),
                                     product_name, quantity)
        IN  /\ InRange(r.products)
            /\ FinishStock(r, "ReceiveStock", product_name, quantity)

\* the tables the two processes start over: at most one product
RaceFiles == {f \in InitFiles : Len(f.rows) <= 1}

RaceInit ==
    /\ impl = "Main.product"
    /\ file \in RaceFiles
    /\ products = Construct(file)
    /\ suppliers = <<>>
    /\ pc = "menu"
    /\ last = NoOp
    /\ attempt = 0
    /\ stock_manager = NotConstructed

RaceNext ==
    \/ Main_product_add
    \/ Stock_init
    \/ Second_receive_stock

RaceSpec == RaceInit /\ [][RaceNext]_vars

(* ======================== properties of the store ===================== *)
\* the session's store: its products or its suppliers
store == IF impl \in SupplierImpls THEN suppliers ELSE products

\* the name and the quantity of a record of the session's store
NameOf(p) == IF Typed THEN p.name ELSE p.Name
QtyOf(p) == IF Typed THEN p.quantity ELSE ParseInt(p.Quantity)

\* FindByName: index of the first record matching name, 0 for NotFound
Find(ps, name) ==
    LET hits == {i \in DOMAIN ps : Lower(NameOf(ps[i])) = Lower(name)}
    IN  IF hits = {} THEN 0 ELSE MinOf(hits)

MutatingOps == {"Add", "Update", "Delete", "ReceiveStock", "RecordSale", "AdjustStock"}

\* the last call was a mutating operation that ran to its end and reported
\* no failure
Succeeded ==
    /\ last.op \in MutatingOps
    /\ pc = "menu"
    /\ last.ret \notin {"NotCalled", "False", "already exists", "ERROR: Could not save data"}

\* the file holds the records of the store, in order, with the same values:
\* a store constructed from it now equals the one in memory
FileReflectsStore == file.header = HeaderOf /\ Construct(file) = store

(* ---------------------------------------------------------------------- *)
\* C1: no two records of the store have names equal under case-insensitive
\* comparison, in any state reached by adds, updates and deletes from a
\* table with pairwise distinct names.
C1_NoDuplicateNames ==
    \A i, j \in DOMAIN store :
        i # j => Lower(NameOf(store[i])) # Lower(NameOf(store[j]))

(* ---------------------------------------------------------------------- *)
\* C2: right after a mutating operation that returned successfully, the
\* backing file holds exactly the records of the in-memory store, in the
\* same order and with the same field values.
C2_FileReflectsStoreAfterSuccess == Succeeded => FileReflectsStore

\* a delivery was booked through stock.py on a product that exists
C2_Witness ==
    /\ impl = "stock" /\ last.op = "ReceiveStock" /\ Succeeded
    /\ last.qty > 0 /\ Len(store) = 2

(* ---------------------------------------------------------------------- *)
\* the ways the step into last' can have failed, read on the state before it
NotFoundPath ==
    last'.op \in {"Update", "Delete", "ReceiveStock", "RecordSale", "AdjustStock"}
    /\ ~last'.found

DuplicateKeyPath == last'.op = "Add" /\ last'.found /\ pc' = "menu"

InsufficientStockPath ==
    /\ last'.op = "RecordSale" /\ last'.found /\ pc' = "menu"
    /\ last'.qty > QtyOf(store[Find(store, last'.name)])

SaveFailedPath == last'.ret = "ERROR: Could not save data"

\* C3: a mutating operation that fails (NotFound, DuplicateKey,
\* InsufficientStock, or a save that could not be written) leaves the store
\* and the file as they were, and on the first three paths the file is not
\* opened for writing at all.
C3_FailureChangesNothing ==
    [][/\ (NotFoundPath \/ DuplicateKeyPath \/ InsufficientStockPath \/ SaveFailedPath)
           => (store' = store /\ file' = file)
       /\ (NotFoundPath \/ DuplicateKeyPath \/ InsufficientStockPath)
           => last'.saves = 0]_vars

(* ---------------------------------------------------------------------- *)
\* C4: an Add whose name is already in the store (case-insensitively) fails
\* with DuplicateKey: it does not report an addition, nothing is appended and
\* the file is not rewritten.
C4_AddDuplicateRejected ==
    [][DuplicateKeyPath =>
          /\ last'.ret # "added successfully"
          /\ store' = store
          /\ file' = file
          /\ last'.saves = 0]_vars

(* ---------------------------------------------------------------------- *)
\* C5: after Add(R) of a record whose name was not in the store,
\* FindByName(R.name) returns a record equal to R, in memory and in a store
\* constructed afresh from the backing file.
C5_AddThenFind ==
    (last.op = "Add" /\ pc = "menu" /\ ~last.found) =>
        LET i == Find(store, last.name)
            fresh == Construct(file)
            j == Find(fresh, last.name)
        IN  /\ i # 0 /\ store[i] = last.rec
            /\ j # 0 /\ fresh[j] = last.rec

\* a record was added behind another one, its name new to the store
C5_Witness ==
    /\ last.op = "Add" /\ pc = "menu" /\ ~last.found
    /\ Len(store) = 2 /\ store[2] = last.rec

(* ---------------------------------------------------------------------- *)
\* C6: after Delete(name) of a name that was present, FindByName(name) is
\* NotFound in memory and in a store reloaded from the file: every record
\* matching case-insensitively is gone, not only the first.
C6_DeleteRemovesEveryMatch ==
    (last.op = "Delete" /\ last.found) =>
        /\ Find(store, last.name) = 0
        /\ Find(Construct(file), last.name) = 0

(* ---------------------------------------------------------------------- *)
\* C7: Delete(name) with no matching record fails with NotFound: the caller
\* can tell it from a successful delete, the user is shown a not-found
\* message and no success message, and the file is not rewritten.
C7_DeleteMissingIsNotFound ==
    [][(last'.op = "Delete" /\ ~last'.found) =>
          /\ last'.ret = "False"
          /\ last'.msg = "Could not find to remove."
          /\ last'.saves = 0
          /\ file' = file]_vars

(* ---------------------------------------------------------------------- *)
\* C8: Update(name, newRecord) fails with NotFound and changes nothing when
\* no record matches; otherwise it puts newRecord at the index of the first
\* match and leaves the length and every other record as they were.
C8_UpdateInPlace ==
    [][(last'.op = "Update" /\ pc' = "menu") =>
          IF ~last'.found
          THEN /\ last'.msg \in {"Product not found!", "Supplier not found!"}
               /\ last'.saves = 0
               /\ store' = store
               /\ file' = file
          ELSE LET i == Find(store, last'.name)
               IN  /\ Len(store') = Len(store)
                   /\ store'[i] = last'.rec
                   /\ \A k \in DOMAIN store : k # i => store'[k] = store[k]]_vars

\* the second of two records was replaced by a record that differs from
\* the first
C8_Witness ==
    /\ last.op = "Update" /\ last.found /\ pc = "menu"
    /\ Len(store) = 2 /\ store[2] = last.rec /\ store[1] # last.rec

(* ---------------------------------------------------------------------- *)
\* C9: after Update(old, newRecord) that renames a present record to a name
\* differing from old case-insensitively, FindByName(old) is NotFound and
\* FindByName(newRecord.name) returns newRecord.
C9_RenameMovesKey ==
    (/\ last.op = "Update" /\ last.found /\ pc = "menu"
     /\ Lower(last.rec.name) # Lower(last.name)) =>
        LET i == Find(store, last.rec.name)
        IN  /\ Find(store, last.name) = 0
            /\ i # 0 /\ store[i] = last.rec

(* ---------------------------------------------------------------------- *)
\* what RecordSale answers for a product that does not exist: False from
\* Stock.record_sale, which prints nothing, and "Product not found." from
\* the menus, which return before changing anything
NotFoundSaleOutcomes == {<<"False", "none">>, <<"NotCalled", "Product not found.">>}

\* C10: RecordSale(name, qty) on an existing product with qty above its
\* quantity answers InsufficientStock, an answer that differs from the one
\* for NotFound, leaves the quantity as it was and does not rewrite the file.
C10_OversellRejected ==
    [][InsufficientStockPath =>
          /\ <<last'.ret, last'.msg>> \notin NotFoundSaleOutcomes
          /\ store' = store
          /\ file' = file
          /\ last'.saves = 0]_vars

(* ---------------------------------------------------------------------- *)
\* C11: no RecordSale, for any product and any integer qty, takes a product
\* whose quantity is non-negative to a negative quantity.
C11_SaleNeverGoesNegative ==
    [][last'.op = "RecordSale" =>
          \A i \in DOMAIN store :
              QtyOf(store[i]) >= 0 => QtyOf(store'[i]) >= 0]_vars

\* a sale of everything that was left went through
C11_Witness ==
    /\ last.op = "RecordSale" /\ Succeeded /\ last.qty > 0
    /\ QtyOf(store[Find(store, last.name)]) = 0

(* ---------------------------------------------------------------------- *)
\* C12: from a product table whose quantities are all non-negative, every
\* product's quantity is a non-negative integer in every state reached by
\* adds, updates, deliveries, sales and adjustments.
C12_QuantitiesNonNegative ==
    impl \in ProductImpls => \A i \in DOMAIN products : QtyOf(products[i]) >= 0

(* ---------------------------------------------------------------------- *)
\* the step into last' is a delivery of a positive quantity of a product
\* that exists, or a delivery handler that found the product and broke off
\* before it asked for the quantity
DeliveryAsked ==
    /\ last'.op = "ReceiveStock" /\ last'.found
    /\ (last'.qty > 0 \/ last'.msg = "TypeError")

\* the step into last' sells, of the product just delivered, the quantity
\* just delivered
SaleOfTheDelivery ==
    /\ last.op = "ReceiveStock" /\ Succeeded /\ last.qty > 0
    /\ last'.op = "RecordSale" /\ last'.qty = last.qty
    /\ Find(store, last'.name) = Find(store, last.name)

\* C13: for an existing product and a positive qty, ReceiveStock(name, qty)
\* succeeds and adds qty, and RecordSale(name, qty) right after it succeeds
\* and leaves the quantity, in memory and in the file, at its value before
\* the two calls (writes that the file system refuses aside).
C13_ReceiveThenSaleRestores ==
    [][/\ (DeliveryAsked /\ ~SaveFailedPath) =>
            LET i == Find(store, last'.name)
            IN  /\ Succeeded'
                /\ QtyOf(store'[i]) = QtyOf(store[i]) + last'.qty
       /\ (SaleOfTheDelivery /\ ~SaveFailedPath) =>
            LET i == Find(store, last.name)
            IN  /\ Succeeded'
                /\ QtyOf(store'[i]) = QtyOf(store[i]) - last.qty
                /\ QtyOf(Construct(file')[i]) = QtyOf(store[i]) - last.qty]_vars

(* ---------------------------------------------------------------------- *)
\* C14: ReceiveStock(name, qty) with qty <= 0 is rejected and leaves the
\* store and the file as they were; with no matching product it fails
\* NotFound and changes nothing; otherwise it adds exactly qty to the
\* quantity of the matched product.
C14_ReceiveOnlyPositive ==
    [][(last'.op = "ReceiveStock" /\ ~SaveFailedPath) =>
          LET i == Find(store, last'.name)
          IN  /\ (~last'.found \/ last'.qty <= 0) =>
                    (~Succeeded' /\ store' = store /\ file' = file)
              /\ (last'.found /\ last'.qty > 0) =>
                    QtyOf(store'[i]) = QtyOf(store[i]) + last'.qty]_vars

(* ---------------------------------------------------------------------- *)
\* C15: AdjustStock(name, newQty, reason) on an existing product completes
\* successfully, sets that product's quantity to newQty whatever it was,
\* writes the store to the file, and keeps the reason nowhere: the record
\* differs from the old one in its quantity alone.
C15_AdjustSetsQuantity ==
    [][(last'.op = "AdjustStock" /\ last'.found) =>
          LET i == Find(store, last'.name)
          IN  /\ Succeeded'
              /\ store' = [store EXCEPT ![i].quantity = last'.qty]
              /\ last'.saves > 0
              /\ FileReflectsStore']_vars

(* ---------------------------------------------------------------------- *)
\* C17: FindByName(name) returns the first record in insertion order whose
\* name equals name case-insensitively, and NotFound when there is none;
\* queries that differ only in letter case return the same record.
C17_FindFirstIgnoringCase ==
    /\ \A name \in Names :
          /\ search(store, name) = Find(store, name)
          /\ \A other \in Names :
                Lower(other) = Lower(name) => search(store, other) = search(store, name)
    /\ last.op = "FindByName" =>
          LET i == Find(store, last.name)
          IN  /\ last.found = (i # 0)
              /\ last.found => last.rec = store[i]

\* a search in lower case returned the first of two records of that name,
\* the one written with a capital
C17_Witness ==
    /\ last.op = "FindByName" /\ last.name = "tea" /\ last.found
    /\ Len(store) = 2 /\ last.rec = store[1]
    /\ store[1].name = "Tea" /\ Lower(store[2].name) = "tea"
    /\ store[2] # store[1]

(* ---------------------------------------------------------------------- *)
\* the k-th smallest element of a set of indices
KthOf(S, k) == CHOOSE i \in S : Cardinality({j \in S : j < i}) = k - 1

\* C16: for every threshold T the low-stock query returns exactly the
\* products whose quantity is strictly less than T, a product at T left
\* out, in store order, and leaves the store and the file unchanged.
C16_LowStockQuery ==
    [][last'.op = "LowStock" =>
          /\ store' = store
          /\ file' = file
          /\ pc' = "menu" =>
                LET below == {i \in DOMAIN store : QtyOf(store[i]) < last'.qty}
                IN  /\ Len(last'.rec) = Cardinality(below)
                    /\ \A k \in 1 .. Len(last'.rec) :
                          last'.rec[k] = store[KthOf(below, k)]]_vars

\* of two products the query left out the one at the threshold and
\* returned the one below it
C16_Witness ==
    /\ last.op = "LowStock" /\ pc = "menu"
    /\ Len(store) = 2 /\ QtyOf(store[1]) = last.qty
    /\ last.rec = <<store[2]>>

(* ---------------------------------------------------------------------- *)
\* C18: the sequence ListAll() returns is a snapshot: a caller that appends
\* to it, removes from it or assigns into it does not change the store, and
\* a later mutation of the store does not change a sequence returned before.
C18_ListAllIsSnapshot ==
    [][/\ last'.op = "ListAll" => store' = store
       /\ last'.op = "ListAllThenAdd" => last'.rec = store]_vars

(* ---------------------------------------------------------------------- *)
\* C19: Persist() replaces the whole file: after a save that was written the
\* file holds the header and exactly one row per record of the store, in
\* the store's order, and no row of its previous content, whether that was
\* longer, shorter or held records since deleted.
C19_PersistReplacesFile ==
    [][(last'.saves > 0 /\ ~SaveFailedPath) =>
          /\ file'.header = HeaderOf
          /\ Len(file'.rows) = Len(store')
          /\ \A i \in DOMAIN store' :
                NameOf(store'[i]) = file'.rows[i].Name
          /\ Construct(file') = store']_vars

\* a delete rewrote a file that held two rows and now holds the one left
C19_Witness ==
    /\ last.op = "Delete" /\ last.found /\ last.saves > 0
    /\ Len(store) = 1 /\ Len(file.rows) = 1

(* ---------------------------------------------------------------------- *)
\* the sessions whose code declares its tables required: main2.py checks
\* for both files before anything else, main3.py's loader cannot run
\* without them; product.py's loader lets a store start empty
TableRequired == impl \in {"main2", "main2.supplier", "main3"}

\* the session is at the point where it looks for its tables
AtLoad == pc = (IF impl = "main3" THEN "load" ELSE "start")

\* C20: when a table required for the session is missing at load time, the
\* session ends with a non-zero exit status and a message, without reaching
\* the main menu and without creating or rewriting the table.
C20_MissingTableIsFatal ==
    [][(TableRequired /\ ~Exists(file)) =>
          /\ file' = file
          /\ pc' \notin {"login", "menu"}
          /\ AtLoad => (pc' = "exited" /\ last'.ret = "exit 1" /\ last'.msg # "none")]_vars

\* main3.py ended with status 1 on its missing stock table
C20_Witness ==
    /\ impl = "main3" /\ ~Exists(file)
    /\ pc = "exited" /\ last.ret = "exit 1"

(* ---------------------------------------------------------------------- *)
\* C25: RecordSale(name, qty) never increases a product's quantity, for any
\* integer qty, zero and negative values included.
C25_SaleNeverIncreases ==
    [][last'.op = "RecordSale" =>
          \A i \in DOMAIN store : QtyOf(store'[i]) <= QtyOf(store[i])]_vars

(* ---------------------------------------------------------------------- *)
\* the record p with its quantity replaced by q
WithQty(p, q) ==
    IF Typed THEN [p EXCEPT !.quantity = q] ELSE [p EXCEPT !.Quantity = IntStr(q)]

\* C26: ReceiveStock, RecordSale and AdjustStock change only the quantity
\* of the first record matching name: its name and price, the number and
\* order of the records and every other record stay as they were, in
\* memory and in the file the call rewrote.
C26_StockOpsChangeQuantityOnly ==
    [][last'.op \in {"ReceiveStock", "RecordSale", "AdjustStock"} =>
          LET i == Find(store, last'.name)
          IN  /\ Len(store') = Len(store)
              /\ IF i = 0 THEN store' = store
                  ELSE store' = [store EXCEPT ![i] = WithQty(@, QtyOf(store'[i]))]
              /\ (last'.saves > 0 /\ ~SaveFailedPath) =>
                    /\ Len(file'.rows) = Len(store)
                    /\ Construct(file') = store']_vars

\* a stock operation changed the second of two records
C26_Witness ==
    /\ last.op \in {"ReceiveStock", "RecordSale", "AdjustStock"} /\ Succeeded
    /\ Len(store) = 2 /\ Find(store, last.name) = 2
    /\ last.saves > 0 /\ last.qty > 0

(* ---------------------------------------------------------------------- *)
\* the table behind the session holds a row that does not parse
MessyTable == Exists(file) /\ \E i \in DOMAIN file.rows : Malformed(file.rows[i])

\* C21: loading a product table with a row whose Price or Quantity does not
\* parse fails the whole load: no store is constructed from the other
\* rows, and no record with an unparsed price or quantity is ever in the
\* in-memory store.
C21_MalformedRowFailsLoad ==
    MessyTable => pc \in {"start", "crashed"} /\ products = <<>>

(* ---------------------------------------------------------------------- *)
\* the step just taken was handed a text that is no number where a price
\* or a quantity was asked for: float() or int() raised ValueError, which
\* nothing caught or which main3.py's handler caught and reported
NonNumericInput ==
    last.msg \in {"ValueError",
                  "Invalid input. Please enter a number for the quantity."}

\* C22: a non-numeric value where a price or quantity is required aborts
\* or re-prompts the current operation only: the session continues at the
\* menu, the value is not taken for zero, and the in-memory store and the
\* backing file are unchanged.
C22_InvalidInputRecoveredLocally ==
    [][NonNumericInput' =>
          pc' = "menu" /\ store' = store /\ file' = file]_vars

(* ---------------------------------------------------------------------- *)
\* the login has let the user in
Granted == last.op = "Login" /\ last.found

\* C23: the login gate always terminates: after three failed attempts it
\* denies entry and the session ends without loading a table or reaching
\* the main menu, and it grants entry only when the username matches the
\* fixed credential case-insensitively and the password equals the fixed
\* password. Stated on the steps of the login: once three attempts have
\* failed no further prompt is made and nothing is let in or loaded.
C23_LoginGate ==
    [][last'.op = "Login" =>
          /\ Granted' => /\ Lower(last'.rec.username) = "admin"
                         /\ last'.rec.password = "test"
          /\ last.qty >= 3 => /\ pc' = "exited"
                              /\ products' = <<>>
                              /\ last'.qty = last.qty]_vars

(* ---------------------------------------------------------------------- *)
\* the step just taken was a save by the first instance, by the second
SavedByFirst == last.op = "Add" /\ last.saves > 0
SavedBySecond == last.op = "ReceiveStock" /\ last.saves > 0

\* the names in the rows of the file
NamesInFile == {file.rows[i].Name : i \in DOMAIN file.rows}

\* C24: with two store instances constructed over the same file path and
\* no lock between them, a lost update is reachable: instance A persists a
\* mutation, instance B (loaded before A's mutation) then persists its
\* own, and the file no longer contains A's change. Every save leaves in
\* the file the list of the instance that saved and nothing else: what
\* the other instance had written since that list was loaded is gone.
C24_SaveWritesOwnListOnly ==
    [][/\ SavedByFirst' => Product_load_products(file') = products'
       /\ SavedBySecond' =>
            /\ Stock_load_products(file') = stock_manager'.products
            /\ \A i \in DOMAIN products :
                  (\A j \in DOMAIN stock_manager.products :
                       stock_manager.products[j].name # products[i].name)
                  => products[i].name \notin NamesInFile']_vars

\* the lost update: a product the first instance holds, and saved when it
\* added it, is in the file no more after a save of the second instance,
\* which never removes a record
C24_Witness ==
    /\ SavedBySecond /\ stock_manager.constructed
    /\ \E i \in DOMAIN products : products[i].name \notin NamesInFile

====
